---- MODULE Spec2Model ----
(***************************************************************************)
(* Model of the ip_ranges package: the CIDR converter (converter.py), the  *)
(* validation helper (utils.py), the command line entry (__main__.py) and  *)
(* the scraper's download loop (scraper.py).                               *)
(*                                                                         *)
(* Addresses are integers of a scaled-down width: an IPv4 address has      *)
(* V4Bits bits and an IPv6 address V6Bits bits (32 and 128 in the program).*)
(* A text is a record of what the parser reads in it: its kind, whether    *)
(* white space surrounds it, the address family and value, and the         *)
(* "/prefix" part (NoPrefix when the text has none).                       *)
(***************************************************************************)
EXTENDS Integers, Sequences, FiniteSets, TLC

(* ------------------------------ bounds --------------------------------- *)
\* Width of an IPv4 address in the model (32 in the program).
V4Bits == 3
\* An IPv6 address is wider than an IPv4 address (128 in the program).
V6Bits == V4Bits + 2
\* Largest number of host bits of the networks whose TXT emission is explored.
MaxHostBits == 2
\* Sample rates are the rationals n / RateDen.
RateDen == 4
\* Largest number of .zone files in the input directory.
MaxFiles == 2
\* Largest --threads value drawn.
MaxThreads == 2
\* Largest number of lines of the zone file handed to process_zone_file.
MaxLines == 3
\* Largest max_retries value of the scraper.
MaxRetries == 3
\* Largest number of zone file links on the scraped page.
MaxLinks == 2

(* ------------------------------ helpers -------------------------------- *)
RECURSIVE Pow2(_)
Pow2(n) == IF n <= 0 THEN 1 ELSE 2 * Pow2(n - 1)

Max(a, b) == IF a >= b THEN a ELSE b
Min(a, b) == IF a <= b THEN a ELSE b

None == [none |-> TRUE]

NoPrefix == -1

Bits(ver) == IF ver = 4 THEN V4Bits ELSE V6Bits

(* ----------------------------- texts ----------------------------------- *)
\* A line of text as the parser sees it.
Text(kind, ws, ver, addr, plen) ==
    [kind |-> kind, ws |-> ws, ver |-> ver, addr |-> addr, plen |-> plen]

\* str.strip(): the surrounding white space is removed, the rest is kept.
strip(t) == [t EXCEPT !.ws = FALSE]

\* The text of an address: str(IPv4Address(n)) or str(IPv6Address(n)).
AddrStr(ver, n) == [ver |-> ver, val |-> n]

\* int(ip_address(s)): the value an address text denotes.
AddrInt(s) == s.val

(* ------------------ ipaddress.ip_network(text, strict=False) ----------- *)
\* A faulty parser: it accepts every text.
ip_network_never_raises(t) == FALSE

\* ip_network raises ValueError unless the text is an address of one family,
\* with no surrounding white space, and a prefix length (when given) within
\* 0..bits. A text without "/prefix" is taken as a single-host network.
ip_network_raises(t) ==
    \/ t.kind # "net"
    \/ t.ws
    \/ t.addr < 0
    \/ t.addr >= Pow2(Bits(t.ver))
    \/ (t.plen # NoPrefix /\ (t.plen < 0 \/ t.plen > Bits(t.ver)))

prefixlen(t) == IF t.plen = NoPrefix THEN Bits(t.ver) ELSE t.plen

\* A faulty network object: the host bits of the address are kept.
ip_network_keeps_host_bits(t) ==
    [version           |-> t.ver,
     prefixlen         |-> IF t.plen = NoPrefix THEN Bits(t.ver) ELSE t.plen,
     network_address   |-> t.addr,
     broadcast_address |-> t.addr + Pow2(Bits(t.ver) - t.plen) - 1]

\* The network object: host bits of the address are cleared (strict=False).
ip_network(t) ==
    LET bits == Bits(t.ver)
        size == Pow2(bits - prefixlen(t))
        base == t.addr - (t.addr % size)
    IN  [version           |-> t.ver,
         prefixlen         |-> prefixlen(t),
         network_address   |-> base,
         broadcast_address |-> base + size - 1]

\* A faulty count: the last address is left out.
num_addresses_off_by_one(net) == net.broadcast_address - net.network_address

\* IPv4Network.num_addresses
num_addresses(net) == net.broadcast_address - net.network_address + 1

(* --------------------------- utils.validate_cidr ----------------------- *)
validate_cidr(t) == ~ ip_network_raises(strip(t))

(* -------------------- CIDRConverter.cidr_to_ip_range ------------------- *)
cidr_to_ip_range(t) ==
    IF ~ validate_cidr(t)
    THEN None
    ELSE LET network == ip_network(strip(t))
         IN  [cidr     |-> strip(t),
              start_ip |-> AddrStr(network.version, network.network_address),
              end_ip   |-> AddrStr(network.version, network.broadcast_address),
              total_ips |-> num_addresses(network)]

(* ------------------------ CIDRConverter.__init__ ----------------------- *)
\* A faulty clamp: only the upper end is enforced.
clamp_sample_rate_upper_only(n) == Min(RateDen, n)

\* self.sample_rate = max(0.0, min(1.0, sample_rate)), as a numerator over
\* RateDen.
clamp_sample_rate(n) == Max(0, Min(RateDen, n))

\* self.max_workers = max(1, max_workers)
clamp_max_workers(n) == Max(1, n)

(* ------------------- random.sample and sorted -------------------------- *)
RECURSIVE KSubsets(_, _)
KSubsets(S, k) ==
    IF k = 0 THEN {{}}
    ELSE IF Cardinality(S) < k THEN {}
    ELSE LET x == CHOOSE y \in S : \A z \in S : y >= z
         IN  {T \cup {x} : T \in KSubsets(S \ {x}, k - 1)}
             \cup KSubsets(S \ {x}, k)

RECURSIVE Descending(_)
Descending(S) ==
    IF S = {} THEN <<>>
    ELSE LET x == CHOOSE y \in S : \A z \in S : y >= z
         IN  <<x>> \o Descending(S \ {x})

Reverse(q) == [i \in 1..Len(q) |-> q[Len(q) + 1 - i]]

\* random.sample(range(n), k): k distinct elements of 0..n-1 in an order the
\* generator picks. The written file depends on the list only through
\* sorted(), so two orders of each selection are drawn: descending and
\* ascending.
random_sample(n, k) ==
    UNION {{Descending(S), Reverse(Descending(S))} : S \in KSubsets(0..(n - 1), k)}

RECURSIVE insert_sorted(_, _)
insert_sorted(x, q) ==
    IF q = <<>> THEN <<x>>
    ELSE IF x <= Head(q) THEN <<x>> \o q
    ELSE <<Head(q)>> \o insert_sorted(x, Tail(q))

\* sorted(list): the same elements, ascending.
RECURSIVE sorted(_)
sorted(q) == IF q = <<>> THEN <<>> ELSE insert_sorted(Head(q), sorted(Tail(q)))

(* ------------------- CIDRConverter.save_ranges_txt --------------------- *)
\* ipaddress.IPv4Address(n) raises AddressValueError (a ValueError) unless
\* n fits an IPv4 address.
IPv4Address_raises(n) == n < 0 \/ n >= Pow2(V4Bits)

\* A faulty expansion: the last address of the block is left out.
write_all_but_last(network) ==
    [i \in 1..(network.broadcast_address - network.network_address) |->
        AddrStr(network.version, network.network_address + i - 1)]

\* "for ip in network: f.write(ip)": every address of the block, ascending.
write_all(network) ==
    [i \in 1..num_addresses(network) |->
        AddrStr(network.version, network.network_address + i - 1)]

\* "for idx in indices: f.write(IPv4Address(network_int + idx))": the loop
\* stops at the first index whose address IPv4Address refuses.
write_indices(network, indices) ==
    LET bad == {i \in 1..Len(indices) :
                    IPv4Address_raises(network.network_address + indices[i])}
        n   == IF bad = {} THEN Len(indices)
               ELSE (CHOOSE i \in bad : \A j \in bad : i <= j) - 1
    IN  [lines  |-> [i \in 1..n |-> AddrStr(4, network.network_address + indices[i])],
         raised |-> bad # {}]

\* k = max(1, int(total_ips * self.sample_rate))
sample_size(total_ips, rate) == Max(1, (total_ips * rate) \div RateDen)

\* The body of the loop over ip_ranges for one range: the set of outcomes,
\* each the lines written for the range and whether ValueError was caught.
txt_for_range(r, rate) ==
    LET network == ip_network(r.cidr)
        total   == num_addresses(network)
        k       == sample_size(total, rate)
    IN  IF rate >= RateDen
        THEN {[lines |-> write_all(network), raised |-> FALSE]}
        ELSE IF rate > 0
        THEN IF k >= total
             THEN {[lines |-> write_all(network), raised |-> FALSE]}
             ELSE {write_indices(network, sorted(smp)) : smp \in random_sample(total, k)}
        ELSE {[lines |-> <<>>, raised |-> FALSE]}

(* ------------------- CIDRConverter.process_zone_file ------------------- *)
\* A faulty loop: it stops at the first invalid line.
RECURSIVE process_lines_stop_at_invalid(_)
process_lines_stop_at_invalid(lines) ==
    IF lines = <<>> THEN <<>>
    ELSE LET line == strip(Head(lines))
         IN  IF line.kind = "blank" \/ line.kind = "comment"
             THEN process_lines_stop_at_invalid(Tail(lines))
             ELSE IF cidr_to_ip_range(line) # None
                  THEN <<cidr_to_ip_range(line)>>
                           \o process_lines_stop_at_invalid(Tail(lines))
                  ELSE <<>>

\* The loop over the lines of an open file: blank lines and comments are
\* skipped, every other line goes through cidr_to_ip_range and is kept when
\* the result is not None.
RECURSIVE process_lines(_)
process_lines(lines) ==
    IF lines = <<>> THEN <<>>
    ELSE LET line == strip(Head(lines))
             rest == process_lines(Tail(lines))
         IN  IF line.kind = "blank" \/ line.kind = "comment"
             THEN rest
             ELSE IF cidr_to_ip_range(line) # None
                  THEN <<cidr_to_ip_range(line)>> \o rest
                  ELSE rest

\* process_zone_file when n lines of the file can be read: n = Len(lines)
\* when the read succeeds; a smaller n when an I/O error ends it (n = 0:
\* open() itself fails): the exception is caught and the ranges collected so
\* far are returned.
process_zone_file(lines, n) == process_lines(SubSeq(lines, 1, n))

RECURSIVE sum_total_ips(_)
sum_total_ips(ranges) ==
    IF ranges = <<>> THEN 0
    ELSE Head(ranges).total_ips + sum_total_ips(Tail(ranges))

(* ----------------------------- inputs ---------------------------------- *)
Blank     == Text("blank", FALSE, 4, 0, NoPrefix)
Comment   == Text("comment", FALSE, 4, 0, NoPrefix)
Garbage   == Text("garbage", FALSE, 4, 0, NoPrefix)
Net4(a, p) == Text("net", FALSE, 4, a, p)

\* Contents of the .zone files found on disk.
\* EmptyZone has no valid line; FiveZone has five valid lines (one repeated,
\* one with host bits set and white space around it).
EmptyZone == <<Comment, Blank, Garbage>>
FiveZone  == <<Net4(0, V4Bits), Net4(0, V4Bits - 1), Text("net", TRUE, 4, 3, V4Bits - 1),
               Net4(0, V4Bits), Net4(1, V4Bits)>>
ZoneContents == {EmptyZone, FiveZone}

AllFormats == <<"json", "csv", "txt">>

\* Values of --format (NoArg: the option is absent).
NoArg == <<>>
FormatArgs == {NoArg, <<"json">>}

\* Values of --threads: 0, which the constructor raises to one worker, and
\* the largest value.
ThreadArgs == {0, MaxThreads}

\* Values of --input: absent, a file, a directory, a path that does not exist.
InputArgs == {"NONE", "FILE", "DIR", "MISSING"}

\* process_zone_file tabulated over the files on disk.
zone_ranges ==
    [c \in ZoneContents |-> [n \in 0..Len(c) |-> process_zone_file(c, n)]]

SeqsUpTo(S, n) == UNION {[1..k -> S] : k \in 0..n}

(* ------------------------------ state ---------------------------------- *)
VARIABLES
    \* the conversion of one line (cidr_to_ip_range, save_ranges_txt)
    cidr,            \* the text handed to cidr_to_ip_range
    rate_arg,        \* the sample_rate argument of the constructor
    sample_rate,     \* self.sample_rate
    ip_range,        \* the record cidr_to_ip_range returned, or None
    txt,             \* the addresses written to the TXT file for the range
    warned,          \* "Could not expand CIDR" was logged
    rpc,             \* "new", "converted", "saved"
    \* the conversion of one file (process_zone_file)
    zone_lines,      \* the lines of the file
    readable,        \* how many of them can be read before an I/O error
    zone_ip_ranges,  \* the list process_zone_file returned
    zpc,             \* "new", "returned"
    \* the scraper (download_all)
    max_retries,     \* self.max_retries
    page,            \* the source page: whether the fetch succeeds, and its zone file links
    zone_links,      \* the list scrape_zone_files returned
    current,         \* position of download_all's loop in that list
    attempt,         \* the attempt number of download_zone_file's loop
    attempts,        \* the outcome of every request made, per file
    downloaded,      \* what each call of download_zone_file returned
    successful_downloads, failed_downloads,
    sret,            \* the dictionary download_all returned
    spc,             \* position of the scraper
    \* the convert command
    args,            \* the parsed command line
    disk,            \* contents of the files at the input path
    pc,              \* position of the main thread
    exit_code,       \* sys.exit status, -1 while running
    converter,       \* the CIDRConverter's configuration, None before it is built
    output_dir,      \* the output directory exists
    zone_files,      \* the files convert_all found
    status,          \* state of each future
    result,          \* result of each future
    yielded,         \* futures as_completed has handed to the loop
    cancel_next,     \* position of the cancelling loop
    processed_files, failed_files, total_ranges, total_ips,
    ret,             \* the dictionary convert_all returned
    written,         \* output files written, each with its writer
    log,             \* records handed to the logger
    faults           \* failures injected so far

rvars == <<cidr, rate_arg, sample_rate, ip_range, txt, warned, rpc>>
zvars == <<zone_lines, readable, zone_ip_ranges, zpc>>
svars == <<max_retries, page, zone_links, current, attempt, attempts, downloaded,
           successful_downloads, failed_downloads, sret, spc>>
counters == <<processed_files, failed_files, total_ranges, total_ips>>
pvars == <<args, disk, pc, exit_code, converter, output_dir, zone_files, status,
           result, yielded, cancel_next, processed_files, failed_files,
           total_ranges, total_ips, ret, written, log, faults>>
vars == <<rvars, zvars, svars, pvars>>

\* Largest number of failures (I/O errors, escaping exceptions) in one run.
MaxFaults == 1

Unset  == [unset |-> TRUE]
Raised == [raised |-> TRUE]

Log(level, msg, file) == [level |-> level, msg |-> msg, file |-> file]

Files == 1..Len(zone_files)

(* -------------------- the convert command: main thread ----------------- *)
\* get_default_config()["converter"]["input_dir"] names a directory.
input_path_kind(input) == IF input = "NONE" THEN "DIR" ELSE input

\* "if args.output_file and args.input and Path(args.input).is_dir()"
main_rejects(a) == a.output_file /\ a.input # "NONE" /\ a.input = "DIR"

MainValidate ==
    /\ pc = "main"
    /\ IF main_rejects(args)
       THEN /\ log' = log \cup {Log("ERROR", "--output-file needs a single file", 0)}
            /\ exit_code' = 1
            /\ pc' = "exit"
       ELSE /\ pc' = "convert_cidr_ranges"
            /\ UNCHANGED <<log, exit_code>>
    /\ UNCHANGED <<rvars, zvars, svars, args, disk, converter, output_dir, zone_files, status, result,
                   yielded, cancel_next, counters, ret, written, faults>>

\* convert_cidr_ranges builds the converter; __init__ resolves the formats.
resolve_formats(fmt) ==
    LET given == IF fmt # <<>> THEN fmt ELSE AllFormats
    IN  IF \E i \in 1..Len(given) : given[i] = "all" THEN AllFormats ELSE given

ConvertCidrRanges ==
    /\ pc = "convert_cidr_ranges"
    /\ converter' = [input_path       |-> input_path_kind(args.input),
                     output_formats   |-> resolve_formats(args.format),
                     max_workers      |-> clamp_max_workers(args.threads),
                     timeout          |-> args.timeout,
                     output_file_name |-> args.output_file]
    /\ processed_files' = 0 /\ failed_files' = 0
    /\ total_ranges' = 0 /\ total_ips' = 0
    /\ pc' = "convert_all"
    /\ UNCHANGED <<rvars, zvars, svars, args, disk, exit_code, output_dir, zone_files, status, result,
                   yielded, cancel_next, ret, written, log, faults>>

\* The dictionary returned when the input path is missing.
not_found_stats ==
    [total_files |-> 0, processed_files |-> 0, total_ranges |-> 0, total_ips |-> 0]

\* The dictionary returned when no file was found.
no_files_stats ==
    [total_files |-> 0, processed_files |-> 0, total_ranges |-> 0, total_ips |-> 0]

\* convert_all up to the submission of the tasks.
ConvertAllDiscover ==
    /\ pc = "convert_all"
    /\ output_dir' = TRUE
    /\ LET found == IF converter.input_path = "FILE" THEN <<1>>
                    ELSE IF converter.input_path = "DIR"
                    THEN [i \in 1..Len(disk) |-> i]
                    ELSE <<>>
       IN  /\ zone_files' = found
           /\ IF converter.input_path \notin {"FILE", "DIR"}
              THEN /\ log' = log \cup {Log("ERROR", "Input path not found", 0)}
                   /\ ret' = not_found_stats
                   /\ pc' = "returned"
                   /\ UNCHANGED <<status, result, counters>>
              ELSE IF found = <<>>
              THEN /\ log' = log \cup {Log("WARNING", "No files to process", 0)}
                   /\ ret' = no_files_stats
                   /\ pc' = "returned"
                   /\ UNCHANGED <<status, result, counters>>
              ELSE /\ processed_files' = 0 /\ failed_files' = 0
                   /\ total_ranges' = 0 /\ total_ips' = 0
                   /\ status' = [i \in 1..Len(found) |-> "pending"]
                   /\ result' = [i \in 1..Len(found) |-> Unset]
                   /\ pc' = "as_completed"
                   /\ UNCHANGED <<log, ret>>
    /\ UNCHANGED <<rvars, zvars, svars, args, disk, exit_code, converter, yielded, cancel_next,
                   written, faults>>

(* ------------------------ the pool's workers --------------------------- *)
Running == {f \in Files : status[f] = "running"}

PoolOpen == pc \in {"as_completed", "cancelling", "shutdown"}

\* A worker takes the first work item of the queue whose future is still
\* pending (items of cancelled futures are dropped) and marks it running.
Start(f) ==
    /\ PoolOpen
    /\ f \in Files
    /\ status[f] = "pending"
    /\ \A g \in Files : g < f => status[g] # "pending"
    /\ Cardinality(Running) < converter.max_workers
    /\ status' = [status EXCEPT ![f] = "running"]
    /\ UNCHANGED <<rvars, zvars, svars, args, disk, pc, exit_code, converter, output_dir, zone_files,
                   result, yielded, cancel_next, counters, ret, written, log, faults>>

Fault(kind, n, fmt) == [kind |-> kind, n |-> n, fmt |-> fmt]
NoFault == Fault("none", 0, "")

Requested(formats) == {fmt \in {"json", "csv", "txt"} :
                          \E i \in 1..Len(formats) : formats[i] = fmt}

\* The failures the environment can inject into the conversion of a file with
\* these lines: an I/O error while reading (in open(), n = 0, or at the last
\* line), an I/O error while writing one format, or an exception that
\* escapes convert_file.
FaultsFor(lines, formats) ==
    {Fault("raise", 0, "")}
    \cup {Fault("read", n, "") : n \in {0, Max(0, Len(lines) - 1)}}
    \cup {Fault("write", 0, fmt) : fmt \in
            IF zone_ranges[lines][Len(lines)] = <<>> THEN {} ELSE Requested(formats)}

\* save_ranges_json / _csv / _txt: the output file of a format.
output_path(conv, base_name, fmt) ==
    IF conv.output_file_name /\ Len(conv.output_formats) = 1
    THEN [explicit |-> TRUE]
    ELSE [base |-> base_name, ext |-> fmt]

\* convert_file on a file with these lines: what it returns, the files it
\* writes and what it logs.
convert_file(conv, f, lines, fault) ==
    LET ip_ranges == zone_ranges[lines][IF fault.kind = "read" THEN fault.n
                                        ELSE Len(lines)]
        read_log  == IF fault.kind = "read"
                     THEN {Log("ERROR", "Error reading file", f)} ELSE {}
        saved     == {fmt \in Requested(conv.output_formats) :
                         ~ (fault.kind = "write" /\ fault.fmt = fmt)}
        failed    == Requested(conv.output_formats) \ saved
    IN  IF ip_ranges = <<>>
        THEN [result |-> None,
              writes |-> {},
              logs   |-> read_log \cup {Log("WARNING", "No valid ranges found", f)}]
        ELSE [result |-> [ranges |-> Len(ip_ranges), ips |-> sum_total_ips(ip_ranges)],
              writes |-> {[path |-> output_path(conv, f, fmt), file |-> f, fmt |-> fmt] :
                             fmt \in saved},
              logs   |-> read_log \cup {Log("ERROR", "Error saving file", f)
                                           : fmt \in failed}]

\* A faulty worker: the task counts its file itself when it ends.
FinishAndCount(f) ==
    /\ f \in Files
    /\ status[f] = "running"
    /\ LET out == convert_file(converter, f, disk[zone_files[f]], NoFault)
       IN  /\ result' = [result EXCEPT ![f] = out.result]
           /\ written' = written \cup out.writes
           /\ log' = log \cup out.logs
    /\ status' = [status EXCEPT ![f] = "finished"]
    /\ processed_files' = processed_files + 1
    /\ UNCHANGED <<rvars, zvars, svars, args, disk, pc, exit_code, converter, output_dir, zone_files,
                   yielded, cancel_next, failed_files, total_ranges, total_ips, ret,
                   faults>>

\* The running task of file f ends: the future gets its result.
Finish(f) ==
    /\ f \in Files
    /\ status[f] = "running"
    /\ \E fault \in {NoFault} \cup
                    (IF faults < MaxFaults
                     THEN FaultsFor(disk[zone_files[f]], converter.output_formats)
                     ELSE {}) :
          /\ faults' = IF fault = NoFault THEN faults ELSE faults + 1
          /\ IF fault.kind = "raise"
             THEN /\ result' = [result EXCEPT ![f] = Raised]
                  /\ UNCHANGED <<written, log>>
             ELSE LET out == convert_file(converter, f, disk[zone_files[f]], fault)
                  IN  /\ result' = [result EXCEPT ![f] = out.result]
                      /\ written' = written \cup out.writes
                      /\ log' = log \cup out.logs
    /\ status' = [status EXCEPT ![f] = "finished"]
    /\ UNCHANGED <<rvars, zvars, svars, args, disk, pc, exit_code, converter, output_dir, zone_files,
                   yielded, cancel_next, counters, ret>>

(* ------------------- convert_all: the as_completed loop ---------------- *)
Tally(p, fl, r, i) == [processed |-> p, failed |-> fl, ranges |-> r, ips |-> i]

\* A faulty loop body: a task that raised is logged but not counted.
tally_exception_uncounted(r) ==
    IF r = Raised THEN Tally(0, 0, 0, 0)
    ELSE IF r # None THEN Tally(1, 0, r.ranges, r.ips)
    ELSE Tally(0, 1, 0, 0)

\* A faulty loop body: a None result is not counted.
tally_none_uncounted(r) ==
    IF r = Raised THEN Tally(0, 1, 0, 0)
    ELSE IF r # None THEN Tally(1, 0, r.ranges, r.ips)
    ELSE Tally(0, 0, 0, 0)

\* A faulty loop body: the ranges of a processed file are not added.
tally_ranges_uncounted(r) ==
    IF r = Raised THEN Tally(0, 1, 0, 0)
    ELSE IF r # None THEN Tally(1, 0, 0, r.ips)
    ELSE Tally(0, 1, 0, 0)

\* What the loop body adds to the counters for a future's result:
\* future.result() raising, a stats dictionary, or None.
tally(r) ==
    IF r = Raised THEN Tally(0, 1, 0, 0)
    ELSE IF r # None THEN Tally(1, 0, r.ranges, r.ips)
    ELSE Tally(0, 1, 0, 0)

\* A faulty loop: it goes on draining completed futures after the timeout.
in_loop_or_after_timeout == pc \in {"as_completed", "cancelling", "shutdown"}

\* The main thread is inside "for future in as_completed(...)".
in_loop == pc = "as_completed"

\* The loop body for a completed future.
Aggregate(f) ==
    /\ in_loop
    /\ f \in Files \ yielded
    /\ status[f] = "finished"
    /\ yielded' = yielded \cup {f}
    /\ processed_files' = processed_files + tally(result[f]).processed
    /\ failed_files' = failed_files + tally(result[f]).failed
    /\ total_ranges' = total_ranges + tally(result[f]).ranges
    /\ total_ips' = total_ips + tally(result[f]).ips
    /\ log' = IF result[f] = Raised
              THEN log \cup {Log("ERROR", "generated an exception", f)}
              ELSE log
    /\ UNCHANGED <<rvars, zvars, svars, args, disk, pc, exit_code, converter, output_dir, zone_files,
                   status, result, cancel_next, ret, written, faults>>

\* as_completed has yielded every future: the loop ends.
LoopEnd ==
    /\ in_loop
    /\ yielded = Files
    /\ pc' = "shutdown"
    /\ UNCHANGED <<rvars, zvars, svars, args, disk, exit_code, converter, output_dir, zone_files, status,
                   result, yielded, cancel_next, counters, ret, written, log, faults>>

TimedOut == Log("ERROR", "Operation timed out", 0) \in log

\* as_completed raises TimeoutError: the deadline has passed and some future
\* has not been yielded.
Timeout ==
    /\ in_loop
    /\ converter.timeout
    /\ yielded # Files
    /\ log' = log \cup {Log("ERROR", "Operation timed out", 0)}
    /\ cancel_next' = 1
    /\ pc' = "cancelling"
    /\ UNCHANGED <<rvars, zvars, svars, args, disk, exit_code, converter, output_dir, zone_files, status,
                   result, yielded, counters, ret, written, faults>>

\* One turn of "for future in future_to_file: future.cancel()": a pending
\* future becomes cancelled, a running or finished one is left alone.
Cancel ==
    /\ pc = "cancelling"
    /\ cancel_next \in Files
    /\ status' = [status EXCEPT ![cancel_next] =
                     IF @ = "pending" THEN "cancelled" ELSE @]
    /\ cancel_next' = cancel_next + 1
    /\ pc' = IF cancel_next = Len(zone_files) THEN "shutdown" ELSE "cancelling"
    /\ UNCHANGED <<rvars, zvars, svars, args, disk, exit_code, converter, output_dir, zone_files, result,
                   yielded, counters, ret, written, log, faults>>

\* The with block ends (the executor waits for its workers) and convert_all
\* returns its statistics.
Return ==
    /\ pc = "shutdown"
    /\ \A f \in Files : status[f] \in {"finished", "cancelled"}
    /\ ret' = [total_files     |-> Len(zone_files),
               processed_files |-> processed_files,
               failed_files    |-> failed_files,
               total_ranges    |-> total_ranges,
               total_ips       |-> total_ips]
    /\ pc' = "returned"
    /\ UNCHANGED <<rvars, zvars, svars, args, disk, exit_code, converter, output_dir, zone_files, status,
                   result, yielded, cancel_next, counters, written, log, faults>>

\* main after convert_cidr_ranges returned.
MainExit ==
    /\ pc = "returned"
    /\ IF ret.processed_files = 0
       THEN /\ log' = log \cup {Log("WARNING", "No files were processed", 0)}
            /\ exit_code' = 1
       ELSE /\ exit_code' = 0
            /\ UNCHANGED log
    /\ pc' = "exit"
    /\ UNCHANGED <<rvars, zvars, svars, args, disk, converter, output_dir, zone_files, status, result,
                   yielded, cancel_next, counters, ret, written, faults>>

(* --------------------- the conversion of one line ---------------------- *)
CidrToIpRange ==
    /\ rpc = "new"
    /\ ip_range' = cidr_to_ip_range(cidr)
    /\ rpc' = "converted"
    /\ UNCHANGED <<cidr, rate_arg, sample_rate, txt, warned, zvars, svars, pvars>>

\* save_ranges_txt for the range of the line (explored for the networks of at
\* most MaxHostBits host bits).
SaveRangesTxt ==
    /\ rpc = "converted"
    /\ ip_range # None
    /\ ip_range.total_ips <= Pow2(MaxHostBits)
    /\ \E out \in txt_for_range(ip_range, sample_rate) :
          /\ txt' = out.lines
          /\ warned' = out.raised
    /\ rpc' = "saved"
    /\ UNCHANGED <<cidr, rate_arg, sample_rate, ip_range, zvars, svars, pvars>>

(* --------------------- the conversion of one file ---------------------- *)
\* process_zone_file on the file: the lines that can be read go through the
\* loop; an I/O error ends it and the list collected so far is returned.
ProcessZoneFile ==
    /\ zpc = "new"
    /\ zone_ip_ranges' = process_zone_file(zone_lines, readable)
    /\ zpc' = "returned"
    /\ UNCHANGED <<rvars, zone_lines, readable, svars, pvars>>

(* ------------------------------ the scraper --------------------------- *)
\* download_all up to its loop: scrape_zone_files returns the links of the
\* page, or [] when the request fails; without links download_all returns.
DownloadAllScrape ==
    /\ spc = "download_all"
    /\ LET found == IF page.ok THEN page.links ELSE <<>>
       IN  /\ zone_links' = found
           /\ IF found = <<>>
              THEN /\ sret' = [total |-> 0, successful |-> 0, failed |-> 0]
                   /\ spc' = "returned"
                   /\ UNCHANGED <<current, attempt, attempts, downloaded,
                                  successful_downloads, failed_downloads>>
              ELSE /\ successful_downloads' = 0
                   /\ failed_downloads' = 0
                   /\ current' = 1
                   /\ attempt' = 1
                   /\ attempts' = [i \in 1..Len(found) |-> <<>>]
                   /\ downloaded' = <<>>
                   /\ spc' = "download_zone_file"
                   /\ UNCHANGED sret
    /\ UNCHANGED <<rvars, zvars, pvars, max_retries, page>>

\* download_zone_file's loop has an attempt left.
attempts_left == attempt <= max_retries

\* One turn of "for attempt in range(1, self.max_retries + 1)": the request
\* succeeds and the file is written, the request fails (RequestException),
\* or writing the file fails (OSError, which nothing catches).
Attempt ==
    /\ spc = "download_zone_file"
    /\ attempts_left
    /\ \E outcome \in {"ok", "request_failed", "write_failed"} :
          /\ attempts' = [attempts EXCEPT ![current] = Append(@, outcome)]
          /\ IF outcome = "ok"
             THEN /\ successful_downloads' = successful_downloads + 1
                  /\ downloaded' = Append(downloaded, TRUE)
                  /\ spc' = "sleep"
                  /\ UNCHANGED <<failed_downloads, attempt>>
             ELSE IF outcome = "write_failed"
             THEN /\ spc' = "raised"
                  /\ UNCHANGED <<successful_downloads, failed_downloads, downloaded,
                                 attempt>>
             ELSE IF attempt < max_retries
             THEN /\ attempt' = attempt + 1
                  /\ UNCHANGED <<successful_downloads, failed_downloads, downloaded,
                                 spc>>
             ELSE /\ failed_downloads' = failed_downloads + 1
                  /\ downloaded' = Append(downloaded, FALSE)
                  /\ spc' = "sleep"
                  /\ UNCHANGED <<successful_downloads, attempt>>
    /\ UNCHANGED <<rvars, zvars, pvars, max_retries, page, zone_links, current, sret>>

\* The loop ended without a return inside it: "return False" after the loop.
NoAttemptLeft ==
    /\ spc = "download_zone_file"
    /\ ~ attempts_left
    /\ downloaded' = Append(downloaded, FALSE)
    /\ spc' = "sleep"
    /\ UNCHANGED <<rvars, zvars, pvars, max_retries, page, zone_links, current, attempt,
                   attempts, successful_downloads, failed_downloads, sret>>

\* time.sleep(self.delay_seconds), then the next file.
NextDownload ==
    /\ spc = "sleep"
    /\ current < Len(zone_links)
    /\ current' = current + 1
    /\ attempt' = 1
    /\ spc' = "download_zone_file"
    /\ UNCHANGED <<rvars, zvars, pvars, max_retries, page, zone_links, attempts,
                   downloaded, successful_downloads, failed_downloads, sret>>

\* After the last file download_all returns its statistics.
DownloadAllReturn ==
    /\ spc = "sleep"
    /\ current = Len(zone_links)
    /\ sret' = [total      |-> Len(zone_links),
                successful |-> successful_downloads,
                failed     |-> failed_downloads]
    /\ spc' = "returned"
    /\ UNCHANGED <<rvars, zvars, pvars, max_retries, page, zone_links, current, attempt,
                   attempts, downloaded, successful_downloads, failed_downloads>>

(* --------------------------- specifications ---------------------------- *)
ScraperIdle ==
    /\ max_retries = 0 /\ page = [ok |-> FALSE, links |-> <<>>] /\ zone_links = <<>> /\ current = 0
    /\ attempt = 0 /\ attempts = <<>> /\ downloaded = <<>>
    /\ successful_downloads = 0 /\ failed_downloads = 0
    /\ sret = None /\ spc = "idle"

RangeIdle ==
    /\ cidr = Blank /\ rate_arg = RateDen /\ sample_rate = RateDen
    /\ ip_range = None /\ txt = <<>> /\ warned = FALSE /\ rpc = "idle"

ZoneIdle == zone_lines = <<>> /\ readable = 0 /\ zone_ip_ranges = <<>> /\ zpc = "idle"

ConvertIdle ==
    /\ args = None /\ disk = <<>> /\ pc = "idle" /\ exit_code = -1
    /\ converter = None /\ output_dir = FALSE /\ zone_files = <<>>
    /\ status = <<>> /\ result = <<>> /\ yielded = {} /\ cancel_next = 0
    /\ processed_files = 0 /\ failed_files = 0 /\ total_ranges = 0 /\ total_ips = 0
    /\ ret = None /\ written = {} /\ log = {} /\ faults = 0

\* Addresses of the texts drawn: every IPv4 address and one value past the
\* family's width; for IPv6 the values around the IPv4 width and the ends.
Addrs(ver) ==
    IF ver = 4 THEN 0..Pow2(V4Bits)
    ELSE {0, 1, Pow2(V4Bits) - 1, Pow2(V4Bits), Pow2(V6Bits) - 1, Pow2(V6Bits)}

Prefixes(ver) == {NoPrefix} \cup (0..(Bits(ver) + 1))

RangeTexts ==
    {Text(k, ws, 4, 0, NoPrefix) : k \in {"blank", "comment", "garbage"}, ws \in BOOLEAN}
    \cup UNION {{Text("net", ws, ver, a, p) : ws \in BOOLEAN, a \in Addrs(ver),
                                             p \in Prefixes(ver)} : ver \in {4, 6}}

RateArgs == (-1)..(RateDen + 1)

InitRange ==
    /\ cidr \in RangeTexts
    /\ rate_arg \in RateArgs
    /\ sample_rate = clamp_sample_rate(rate_arg)
    /\ ip_range = None /\ txt = <<>> /\ warned = FALSE /\ rpc = "new"
    /\ ZoneIdle
    /\ ScraperIdle
    /\ ConvertIdle

NextRange == CidrToIpRange \/ SaveRangesTxt

SpecRange == InitRange /\ [][NextRange]_vars

\* The lines of the file handed to process_zone_file: empty and blank lines,
\* comments (also indented), text that is no address, valid networks (also
\* with white space and host bits), a prefix length past the family's, and
\* an address without prefix.
ZoneLines ==
    {Blank, Text("blank", TRUE, 4, 0, NoPrefix),
     Comment, Text("comment", TRUE, 4, 0, NoPrefix),
     Garbage,
     Net4(0, V4Bits), Text("net", TRUE, 4, 1, V4Bits - 1),
     Net4(0, V4Bits + 1), Net4(1, NoPrefix)}

InitZone ==
    /\ RangeIdle
    /\ zone_lines \in SeqsUpTo(ZoneLines, MaxLines)
    /\ readable \in 0..Len(zone_lines)
    /\ zone_ip_ranges = <<>> /\ zpc = "new"
    /\ ScraperIdle
    /\ ConvertIdle

NextZone == ProcessZoneFile

SpecZone == InitZone /\ [][NextZone]_vars

\* The files at the input path: one file, the .zone files of a directory, or
\* nothing at a path that does not exist.
DisksFor(input) ==
    IF input = "FILE" THEN [1..1 -> ZoneContents]
    ELSE IF input = "MISSING" THEN {<<>>}
    ELSE SeqsUpTo(ZoneContents, MaxFiles)

\* The scraper after construction, with the page it will find.
InitScraper ==
    /\ RangeIdle
    /\ ZoneIdle
    /\ ConvertIdle
    /\ max_retries \in 0..MaxRetries
    /\ page \in {[ok |-> FALSE, links |-> <<>>]}
                 \cup {[ok |-> TRUE, links |-> [i \in 1..n |-> i]] : n \in 0..MaxLinks}
    /\ zone_links = <<>> /\ current = 0 /\ attempt = 0
    /\ attempts = <<>> /\ downloaded = <<>>
    /\ successful_downloads = 0 /\ failed_downloads = 0
    /\ sret = None /\ spc = "download_all"

NextScraper ==
    \/ DownloadAllScrape \/ Attempt \/ NoAttemptLeft \/ NextDownload
    \/ DownloadAllReturn

SpecScraper == InitScraper /\ [][NextScraper]_vars

Init ==
    /\ RangeIdle
    /\ ZoneIdle
    /\ ScraperIdle
    /\ args \in [input : InputArgs, output_file : BOOLEAN, format : FormatArgs,
                 threads : ThreadArgs, timeout : BOOLEAN]
    /\ disk \in DisksFor(args.input)
    /\ pc = "main" /\ exit_code = -1
    /\ converter = None /\ output_dir = FALSE /\ zone_files = <<>>
    /\ status = <<>> /\ result = <<>> /\ yielded = {} /\ cancel_next = 0
    /\ processed_files = 0 /\ failed_files = 0 /\ total_ranges = 0 /\ total_ips = 0
    /\ ret = None /\ written = {} /\ log = {} /\ faults = 0

MainThread ==
    \/ MainValidate \/ ConvertCidrRanges \/ ConvertAllDiscover
    \/ (\E f \in Files : Aggregate(f))
    \/ LoopEnd \/ Timeout \/ Cancel \/ Return \/ MainExit

Workers == \E f \in Files : Start(f) \/ Finish(f)

Next ==
    \/ MainValidate \/ ConvertCidrRanges \/ ConvertAllDiscover
    \/ (\E f \in Files : Start(f))
    \/ (\E f \in Files : Finish(f))
    \/ (\E f \in Files : Aggregate(f))
    \/ LoopEnd \/ Timeout \/ Cancel \/ Return \/ MainExit

Spec == Init /\ [][Next]_vars

\* The main thread keeps running and every started task ends.
FairSpec == Spec /\ WF_vars(MainThread) /\ WF_vars(Workers)

(* ------------------------------ claims --------------------------------- *)
Returned == pc \in {"returned", "exit"}

IsStats(r) == r # Unset /\ r # None /\ r # Raised

RECURSIVE SumOver(_, _)
\* Sum of g[f] over the files of S.
SumOver(S, g) ==
    IF S = {} THEN 0
    ELSE LET f == CHOOSE x \in S : TRUE
         IN  g[f] + SumOver(S \ {f}, g)

\* The results convert_file can give for file f taken alone.
OutcomesOf(f) ==
    {Raised} \cup
    {convert_file(converter, f, disk[zone_files[f]], fault).result :
        fault \in {NoFault} \cup FaultsFor(disk[zone_files[f]], converter.output_formats)}

\* C1: every record cidr_to_ip_range returns has
\* total_ips = end_ip - start_ip + 1 = 2^(address bits - prefix length) >= 1,
\* and for the maximum prefix length start_ip = end_ip and total_ips = 1.
C1_RangeSize ==
    (rpc \in {"converted", "saved"} /\ ip_range # None) =>
        LET bits == Bits(strip(cidr).ver)
            plen == prefixlen(strip(cidr))
        IN  /\ ip_range.total_ips
                 = AddrInt(ip_range.end_ip) - AddrInt(ip_range.start_ip) + 1
            /\ ip_range.total_ips = Pow2(bits - plen)
            /\ ip_range.total_ips >= 1
            /\ plen = bits =>
                 /\ ip_range.start_ip = ip_range.end_ip
                 /\ ip_range.total_ips = 1

\* A text with the maximum IPv4 prefix length and a nonzero address was
\* converted to a range of one address.
C1_Witness ==
    /\ rpc = "converted" /\ ip_range # None
    /\ cidr.ver = 4 /\ cidr.plen = V4Bits /\ cidr.addr > 0
    /\ ip_range.total_ips = 1

\* C2: with no timeout configured, when convert_all has returned every file
\* found is counted once, processed_files + failed_files = total_files, and
\* the counters are the sum of what each file's own result contributes.
C2_EveryFileCountedOnce ==
    (Returned /\ converter # None /\ ~ converter.timeout) =>
        /\ processed_files + failed_files = Len(zone_files)
        /\ \A f \in Files : result[f] \in OutcomesOf(f)
        /\ processed_files = Cardinality({f \in Files : IsStats(result[f])})
        /\ failed_files = Cardinality({f \in Files : result[f] \in {None, Raised}})
        /\ total_ranges = SumOver({f \in Files : IsStats(result[f])},
                                  [f \in Files |-> IF IsStats(result[f])
                                                   THEN result[f].ranges ELSE 0])
        /\ total_ips = SumOver({f \in Files : IsStats(result[f])},
                               [f \in Files |-> IF IsStats(result[f])
                                                THEN result[f].ips ELSE 0])
        /\ ret # None =>
             /\ ret.total_files = Len(zone_files)
             /\ ret.processed_files = processed_files
             /\ ("failed_files" \in DOMAIN ret => ret.failed_files = failed_files)

\* Two files on two workers, no timeout: one task raised, the other was
\* processed, and convert_all has returned.
C2_Witness ==
    /\ pc = "returned" /\ ~ converter.timeout /\ converter.max_workers = 2
    /\ Len(zone_files) = 2
    /\ \E f, g \in Files : result[f] = Raised /\ IsStats(result[g])
    /\ ret.processed_files = 1 /\ ret.failed_files = 1

\* C3: once the timeout has been raised, no task that had not started is
\* launched.
C3_NoLaunchAfterTimeout ==
    [][TimedOut =>
         \A f \in Files : status[f] = "pending" => status'[f] # "running"]_vars

\* C4: after a timeout convert_all returns, with processed_files and
\* processed_files + failed_files at most total_files, and with the counters
\* as they were when the timeout was raised.
C4_TimeoutReturnsPartial ==
    /\ [](TimedOut /\ Returned =>
            /\ ret.processed_files <= ret.total_files
            /\ ret.processed_files + ret.failed_files <= ret.total_files
            /\ ret.processed_files = processed_files
            /\ ret.failed_files = failed_files
            /\ ret.total_ranges = total_ranges
            /\ ret.total_ips = total_ips)
    /\ [][TimedOut => counters' = counters]_vars
    /\ (TimedOut ~> pc = "exit")

\* convert_all returned after a timeout, leaving out a task that ended with
\* statistics but was never handed to the loop.
C4_Witness ==
    /\ pc = "returned" /\ TimedOut
    /\ \E f \in Files \ yielded : status[f] = "finished" /\ IsStats(result[f])
    /\ ret.processed_files + ret.failed_files < ret.total_files

\* The run of the example: a directory with one file without a valid line
\* and one file with five valid lines, two workers, no timeout, no failure.
EmptyAndFive ==
    /\ converter # None /\ converter.input_path = "DIR"
    /\ converter.max_workers = 2 /\ ~ converter.timeout
    /\ faults = 0
    /\ disk \in {<<EmptyZone, FiveZone>>, <<FiveZone, EmptyZone>>}

\* C5 as stated: a None (skipped) result never increments failed_files, and
\* the run of the example returns processed_files = 1, failed_files = 0.
C5_SkippedNotFailed ==
    /\ failed_files <= Cardinality({f \in yielded : result[f] = Raised})
    /\ (pc = "returned" /\ EmptyAndFive) =>
          (ret.processed_files = 1 /\ ret.failed_files = 0)

\* C5, amended: every None result handed to the loop increments
\* failed_files, and the run of the example returns processed_files = 1,
\* failed_files = 1.
C5_SkippedCountsAsFailed ==
    /\ failed_files >= Cardinality({f \in yielded : result[f] = None})
    /\ (pc = "returned" /\ EmptyAndFive) =>
          (ret.processed_files = 1 /\ ret.failed_files = 1)

\* The run of the example has returned.
C5_Witness ==
    /\ pc = "returned" /\ EmptyAndFive
    /\ \E f \in yielded : result[f] = None

\* An I/O error was logged for file f (while reading it or while saving one
\* of its formats).
IoFailed(f) ==
    \/ Log("ERROR", "Error reading file", f) \in log
    \/ Log("ERROR", "Error saving file", f) \in log

\* C6: a file with an I/O failure counts toward failed_files and not toward
\* processed_files.
C6_IoFailureCountsAsFailed ==
    /\ processed_files <= Cardinality({f \in yielded : ~ IoFailed(f)})
    /\ failed_files >= Cardinality({f \in yielded : IoFailed(f)})

\* C7: an explicit output filename with an input path that is a directory
\* (given or default) is rejected before any task is submitted or any file
\* written.
C7_OutputFileWithDirectoryRejected ==
    (args.output_file /\ input_path_kind(args.input) = "DIR") =>
        /\ status = <<>>
        /\ written = {}
        /\ pc = "exit" => exit_code = 1

\* C8: an explicit output filename with more than one output format is
\* rejected before any task is submitted or any file written.
C8_OutputFileWithFormatsRejected ==
    (args.output_file /\ Len(resolve_formats(args.format)) > 1) =>
        /\ status = <<>>
        /\ written = {}
        /\ pc = "exit" => exit_code = 1

\* C9: the dictionary returned for an input path that exists, when no file
\* was processed, differs from the one returned for a missing input path.
C9_MissingPathDistinguishable ==
    (pc = "returned" /\ converter.input_path \in {"FILE", "DIR"}
        /\ ret.processed_files = 0) =>
        ret # not_found_stats

\* The addresses written are strictly ascending.
Ascending(q) == \A i \in 1..(Len(q) - 1) : AddrInt(q[i]) < AddrInt(q[i + 1])

\* Every address written is an address of the range.
WithinRange(q, r) ==
    \A i \in 1..Len(q) :
        /\ q[i].ver = r.start_ip.ver
        /\ AddrInt(r.start_ip) <= AddrInt(q[i])
        /\ AddrInt(q[i]) <= AddrInt(r.end_ip)

\* C10: with 0 < rate < 1 the TXT emission of a range writes exactly
\* k = max(1, floor(total_ips * rate)) addresses, distinct, strictly
\* ascending, all within [start_ip, end_ip].
C10_SampledAddresses ==
    (rpc = "saved" /\ 0 < sample_rate /\ sample_rate < RateDen) =>
        /\ Len(txt) = Max(1, (ip_range.total_ips * sample_rate) \div RateDen)
        /\ Ascending(txt)
        /\ \A i, j \in 1..Len(txt) : i # j => txt[i] # txt[j]
        /\ WithinRange(txt, ip_range)

\* C10 restricted to IPv4 ranges.
C10_SampledAddressesIPv4 ==
    (ip_range # None /\ ip_range.start_ip.ver = 4) => C10_SampledAddresses

\* C11: with rate >= 1, or whenever the sample size k >= total_ips, the TXT
\* emission of a range writes every address of the range exactly once,
\* strictly ascending from start_ip to end_ip: total_ips lines.
C11_DenseEmission ==
    (rpc = "saved"
        /\ (sample_rate >= RateDen
              \/ (sample_rate > 0
                    /\ Max(1, (ip_range.total_ips * sample_rate) \div RateDen)
                          >= ip_range.total_ips))) =>
        /\ Len(txt) = ip_range.total_ips
        /\ Ascending(txt)
        /\ WithinRange(txt, ip_range)
        /\ txt[1] = ip_range.start_ip
        /\ txt[Len(txt)] = ip_range.end_ip
        /\ ~ warned

\* An IPv6 range of more than one address was written in full at rate 1.
C11_Witness ==
    /\ rpc = "saved" /\ sample_rate = RateDen
    /\ ip_range.start_ip.ver = 6
    /\ ip_range.total_ips = Pow2(MaxHostBits)
    /\ Len(txt) = ip_range.total_ips

\* C12: the effective rate is always within [0, 1] (a rate below 0 becomes 0,
\* a rate above 1 becomes 1), and with a rate <= 0 the TXT emission writes no
\* address for any range.
C12_RateClampedAndZeroWritesNothing ==
    (rpc \in {"new", "converted", "saved"}) =>
        /\ 0 <= sample_rate /\ sample_rate <= RateDen
        /\ rate_arg <= 0 => sample_rate = 0
        /\ rate_arg >= RateDen => sample_rate = RateDen
        /\ (0 <= rate_arg /\ rate_arg <= RateDen) => sample_rate = rate_arg
        /\ (rpc = "saved" /\ rate_arg <= 0) => (txt = <<>> /\ ~ warned)

\* A negative rate: the TXT emission of a range of several addresses wrote
\* nothing.
C12_Witness ==
    /\ rpc = "saved" /\ rate_arg < 0 /\ sample_rate = 0
    /\ ip_range.total_ips > 1 /\ txt = <<>>

\* The text is an address of its family with a prefix length the family
\* allows.
WellFormed(t) ==
    /\ t.kind = "net"
    /\ 0 <= t.addr /\ t.addr < Pow2(Bits(t.ver))
    /\ t.plen # NoPrefix /\ 0 <= t.plen /\ t.plen <= Bits(t.ver)

\* C13: an address with nonzero host bits and a valid prefix length is never
\* rejected: start_ip is the base of the block holding the address (host bits
\* cleared), end_ip the highest address of that block, and the cidr field is
\* the trimmed original text.
C13_NonStrictForm ==
    (rpc \in {"converted", "saved"} /\ WellFormed(cidr)) =>
        LET size == Pow2(Bits(cidr.ver) - cidr.plen)
        IN  /\ ip_range # None
            /\ AddrInt(ip_range.start_ip) % size = 0
            /\ AddrInt(ip_range.start_ip) <= cidr.addr
            /\ cidr.addr <= AddrInt(ip_range.end_ip)
            /\ AddrInt(ip_range.end_ip) = AddrInt(ip_range.start_ip) + size - 1
            /\ ip_range.start_ip.ver = cidr.ver /\ ip_range.end_ip.ver = cidr.ver
            /\ ip_range.cidr = [cidr EXCEPT !.ws = FALSE]
            /\ ip_range.cidr.addr = cidr.addr

\* A text with white space around it and host bits set was converted.
C13_Witness ==
    /\ rpc = "converted" /\ WellFormed(cidr) /\ cidr.ws
    /\ cidr.addr % Pow2(Bits(cidr.ver) - cidr.plen) # 0
    /\ ip_range # None
    /\ AddrInt(ip_range.start_ip) < cidr.addr

\* The text is not an address: empty or blank, not an address at all, an
\* address outside its family, or a prefix length the family does not allow.
Malformed(t) ==
    \/ t.kind # "net"
    \/ t.addr < 0 \/ t.addr >= Pow2(Bits(t.ver))
    \/ (t.plen # NoPrefix /\ (t.plen < 0 \/ t.plen > Bits(t.ver)))

\* C14: for malformed text, "invalid" and the empty string included,
\* cidr_to_ip_range returns None.
C14_MalformedYieldsNone ==
    (rpc \in {"converted", "saved"} /\ Malformed(cidr)) =>
        (ip_range = None /\ rpc = "converted")

\* A text that is not an address was converted to None.
C14_Witness ==
    /\ rpc = "converted" /\ cidr.kind = "garbage" /\ ip_range = None

\* C15: validate_cidr returns False for an address written without a
\* "/prefix" part, and such a line never produces a range.
C15_BareAddressInvalid ==
    (rpc \in {"converted", "saved"} /\ cidr.kind = "net" /\ cidr.plen = NoPrefix) =>
        /\ ~ validate_cidr(cidr)
        /\ ip_range = None

\* A step of a pool worker: a task starts or ends.
WorkerStep ==
    \E f \in Files :
        \/ status[f] = "pending" /\ status'[f] = "running"
        \/ status[f] = "running" /\ status'[f] = "finished"

\* C16: the four counters are changed only by the main thread, when it resets
\* them or handles a completed future in the draining loop; a step of a pool
\* worker (convert_file and the save operations) leaves them unchanged.
C16_CountersOnlyByDrainingThread ==
    [][/\ WorkerStep => counters' = counters
       /\ counters' # counters =>
             \/ pc \in {"convert_cidr_ranges", "convert_all"}
             \/ (pc = "as_completed" /\ yielded' # yielded /\ status' = status)]_vars

\* A worker has converted a file and written its output; the main thread has
\* not handled the future yet and the counters are still zero.
C16_Witness ==
    /\ pc = "as_completed"
    /\ \E f \in Files \ yielded :
          /\ IsStats(result[f])
          /\ \E w \in written : w.file = f
    /\ processed_files = 0 /\ failed_files = 0
    /\ total_ranges = 0 /\ total_ips = 0

\* The files whose statistics the loop has added.
Counted == {f \in yielded : IsStats(result[f])}

\* C17: total_ranges and total_ips are the sums of the per-file range and
\* address counts over the files counted in processed_files, whatever the
\* order of completion and the worker count; with no timeout and no failure
\* the returned totals depend on the input files only.
C17_SumsOrderIndependent ==
    (converter # None /\ Files # {}) =>
        /\ processed_files = Cardinality(Counted)
        /\ total_ranges = SumOver(Counted, [f \in Files |->
                              IF IsStats(result[f]) THEN result[f].ranges ELSE 0])
        /\ total_ips = SumOver(Counted, [f \in Files |->
                              IF IsStats(result[f]) THEN result[f].ips ELSE 0])
        /\ (Returned /\ ~ converter.timeout) =>
              /\ yielded = Files
              /\ ret.total_ranges = total_ranges /\ ret.total_ips = total_ips
              /\ faults = 0 =>
                    /\ ret.total_ranges = SumOver(Files, [f \in Files |->
                            Len(process_lines(disk[zone_files[f]]))])
                    /\ ret.total_ips = SumOver(Files, [f \in Files |->
                            sum_total_ips(process_lines(disk[zone_files[f]]))])

\* The second file submitted was the first one added to the totals.
C17_Witness ==
    /\ pc = "as_completed" /\ Len(zone_files) = 2
    /\ yielded = {2} /\ IsStats(result[2])
    /\ total_ranges = result[2].ranges /\ total_ranges > 0

\* C19: no two writes of a run target the same output path: the paths of two
\* distinct (source file, format) pairs differ.
C19_DistinctOutputPaths ==
    \A w1, w2 \in written :
        (w1.file # w2.file \/ w1.fmt # w2.fmt) => w1.path # w2.path

\* The lines read that pass validation.
ValidLines == {i \in 1..readable : validate_cidr(zone_lines[i])}

\* The j-th smallest element of a set of numbers.
Nth(S, j) == CHOOSE i \in S : Cardinality({x \in S : x <= i}) = j

\* C18: process_zone_file returns exactly the records of the lines read that
\* pass validation, in line order and with duplicates kept; blank lines,
\* comments and invalid lines are skipped without ending the loop, and no None
\* or partial record is in the list.
C18_RecordsOfValidLinesInOrder ==
    (zpc = "returned") =>
        /\ Len(zone_ip_ranges) = Cardinality(ValidLines)
        /\ \A j \in 1..Len(zone_ip_ranges) :
              /\ zone_ip_ranges[j] # None
              /\ DOMAIN zone_ip_ranges[j] = {"cidr", "start_ip", "end_ip", "total_ips"}
              /\ zone_ip_ranges[j] = cidr_to_ip_range(zone_lines[Nth(ValidLines, j)])
              /\ zone_ip_ranges[j].cidr = [zone_lines[Nth(ValidLines, j)] EXCEPT !.ws = FALSE]
        /\ \A i \in 1..readable :
              zone_lines[i].kind \in {"blank", "comment", "garbage"} => i \notin ValidLines

\* A file read to its end: a valid line, an invalid line and the same valid
\* line again gave two equal records.
C18_Witness ==
    /\ zpc = "returned" /\ readable = Len(zone_lines) /\ Len(zone_lines) = 3
    /\ zone_lines[1] = zone_lines[3]
    /\ zone_lines[2] = Garbage
    /\ Len(zone_ip_ranges) = 2 /\ zone_ip_ranges[1] = zone_ip_ranges[2]

\* The calls of download_zone_file that have returned.
Calls == 1..Len(downloaded)

\* C20: every call of download_zone_file makes at most max_retries attempts,
\* stops at the first successful one, and increments exactly one of
\* successful_downloads / failed_downloads once; after download_all returns,
\* successful + failed = total.
C20_DownloadsCountedOnce ==
    (spc \in {"download_zone_file", "sleep", "returned"} /\ zone_links # <<>>) =>
        /\ \A f \in 1..Len(zone_links) :
              /\ Len(attempts[f]) <= max_retries
              /\ \A i \in 1..(Len(attempts[f]) - 1) : attempts[f][i] # "ok"
        /\ successful_downloads = Cardinality({f \in Calls : downloaded[f]})
        /\ failed_downloads = Cardinality({f \in Calls : ~ downloaded[f]})
        /\ successful_downloads + failed_downloads = Len(downloaded)
        /\ spc = "returned" =>
              /\ sret.total = Len(zone_links)
              /\ sret.successful + sret.failed = sret.total

\* C20 for a scraper configured with max_retries >= 1.
C20_DownloadsCountedOnceWithRetries ==
    max_retries >= 1 => C20_DownloadsCountedOnce

====
